---- MODULE Spec2Model ----
(***************************************************************************)
(* A model of gide's command orchestration (cmd/gide commands: Command,    *)
(* CmdAndArgs, the prompt flow, RunAfterPrompts and the step runners).     *)
(*                                                                         *)
(* Threads.  Run, the dialog callbacks, MakeBuf and the setter of           *)
(* CmdNoUserPrompt execute on the foreground call path; fg names the run   *)
(* that currently occupies it (0: none).  A synchronous run keeps the      *)
(* foreground path while it waits for its step's process.  The only other  *)
(* threads are the goroutines started by `go cm.RunNoBuf` / `go cm.RunBuf`,*)
(* at most one for each pass of a run through RunAfterPrompts (field bg).  *)
(*                                                                         *)
(* Text.  A text ([]byte) is the sequence of its "\n"-separated pieces, so *)
(* a process output of n newline-terminated lines has n+1 pieces, the last *)
(* one empty, and the empty (or nil) output has one empty piece: that is   *)
(* what bytes.Split(out, "\n") returns.  A line is the sequence of its     *)
(* whitespace-separated fields.                                            *)
(*                                                                         *)
(* Panics.  A Go panic that nothing recovers ends the host process:        *)
(* panicked names the panic and nothing happens afterwards.               *)
(***************************************************************************)
EXTENDS Integers, Sequences, FiniteSets, TLC

\* ------------------------------------------------------------------ bounds
\* Longest step sequence (Command.Cmds) of the command under test.
MaxSteps == 2
\* Most lines a step's process writes.
MaxOut == 2
MaxCustom == 2
MaxBeyond == 3
MaxKids == 2
\* The fields of a line given to MarkupCmdOutput number at most MaxFields.
MaxFields == 3

\* The Run invocations of a behaviour are numbered from 1.
RunIds == 1 .. 2
\* Two Command instances: c1 is the command under test, c2 a second command
\* with its own working directory.
CmdIds == {"c1", "c2"}

\* ------------------------------------------------------- project context
PromptString1 == "{PromptString1}"
PromptString2 == "{PromptString2}"
PromptTokens == {PromptString1, PromptString2}

ProjPathVar == "{ProjPath}"
ProjRoot == "/proj"
ArgVarNames == {ProjPathVar, "{FileDirPath}", "{BuildDir}"} \cup PromptTokens
\* Directories that exist; the project root always does (the code logs the
\* failure of the final Chdir with "shouldn't happen").
ExistingDirs == {ProjRoot, "/proj/sub", "/proj/build"}

\* ArgVarVals before any prompt was answered: a prompt token without a value
\* is left verbatim.
ArgVarValsInit ==
    [n \in ArgVarNames |->
        CASE n = ProjPathVar -> ProjRoot
          [] n = "{FileDirPath}" -> "/proj/sub"
          [] n = "{BuildDir}" -> "/proj/build"
          [] OTHER -> n]

\* BindArgVars(s) under the mapping vals: a string that is a variable is
\* replaced by its value, any other string is left verbatim.
BindArgVars(vals, s) == IF s \in DOMAIN vals THEN vals[s] ELSE s

\* ArgVarPrompts(av): the reserved prompt tokens that occur in av.
ArgVarPrompts(av) == IF av \in PromptTokens THEN {av} ELSE {}

\* ------------------------------------------------------------- CmdAndArgs
\* CmdAndArgs.HasPrompts: the union of the prompt tokens of the args (the
\* bool it also returns is "the set is not empty").
CmdAndArgsHasPrompts(cma) ==
    UNION {ArgVarPrompts(cma.Args[i]) : i \in DOMAIN cma.Args}

\* CmdAndArgs.BindArgs
BindArgs(vals, cma) == [i \in DOMAIN cma.Args |-> BindArgVars(vals, cma.Args[i])]

\* CmdAndArgs.PrepCmd: the fields of cmdstr (program, then the bound args).
PrepCmd(vals, cma) == <<BindArgVars(vals, cma.Cmd)>> \o BindArgs(vals, cma)

\* Command.HasPrompts: the union over the steps.
HasPrompts(cm) == UNION {CmdAndArgsHasPrompts(cm.Cmds[i]) : i \in DOMAIN cm.Cmds}

\* ------------------------------------------------- command definitions
StepPlain == [Cmd |-> "go", Args |-> <<"build">>]
StepP1 == [Cmd |-> "grep", Args |-> <<PromptString1>>]
StepP2 == [Cmd |-> "grep", Args |-> <<PromptString2>>]
StepP12 == [Cmd |-> "sed", Args |-> <<PromptString1, PromptString2>>]

\* Step sequences of length 0..MaxSteps: any first step, followed by steps of
\* one kind.
StepLists ==
    {<<>>} \cup
    {<<f>> \o [i \in 1 .. n |-> t] :
        f \in {StepPlain, StepP1, StepP12}, t \in {StepPlain, StepP2},
        n \in 0 .. (MaxSteps - 1)}

\* The definitions of the command under test.
CmdDefs ==
    [Cmds : StepLists, Dir : {"", "{FileDirPath}", "/nodir"}, Wait : BOOLEAN]
\* Two commands that are run side by side: single-step commands with two
\* different working directories.
CmdDefs1 ==
    [Cmds : {<<StepPlain>>}, Dir : {"{FileDirPath}"}, Wait : BOOLEAN]
CmdDefs2 ==
    [Cmds : {<<StepPlain>>}, Dir : {"{BuildDir}"}, Wait : BOOLEAN]
\* Commands that are run one after the other in the foreground, with and
\* without prompts.
CmdDefsWait1 == [Cmds : {<<StepPlain>>, <<StepP1>>}, Dir : {""}, Wait : {TRUE}]
CmdDefsWait2 == [Cmds : {<<StepP12>>}, Dir : {""}, Wait : {TRUE}]


\* ------------------------------------------------------------------ text
\* A []byte: nil, or the sequence of its "\n"-separated pieces.
NilOut == [nil |-> TRUE, pieces |-> <<<<>>>>]
Text(line) == [nil |-> FALSE, pieces |-> <<line>>]

\* The i-th line a process writes.
OutLine(i) == IF i % 2 = 1 THEN <<"main.go:42:7", "undefined">> ELSE <<"ok">>
\* How a launched process ends: silently with exit status 0, or with exit
\* status 1 after MaxOut lines of output.
ExitOutcomes == {[code |-> 0, n |-> 0], [code |-> 1, n |-> MaxOut]}
\* The combined output of a process that wrote n newline-terminated lines.
ProcOut(n) ==
    [nil |-> FALSE,
     pieces |-> [i \in 1 .. (n + 1) |-> IF i <= n THEN OutLine(i) ELSE <<>>]]

\* bytes.Split(out, "\n")
Split(out) == out.pieces

\* The fields of the model's vocabulary that contain a "." or a "/".
FileTokens ==
    ExistingDirs \cup
    {"/nodir", "main.go:42:7", "<b>successful</b>", "<b>failed</b>", "error</b>"}
Link(ff) == "<a href>" \o ff \o "</a>"
MinInt(a, b) == IF a < b THEN a ELSE b

\* MarkupCmdOutput on the fields of a line: the first of the first two fields
\* that contains "." or "/" becomes a link.
MarkupCmdOutput(flds) ==
    IF Len(flds) = 0 THEN flds
    ELSE LET mx == MinInt(Len(flds), 2)
             cand == {i \in 1 .. mx : flds[i] \in FileTokens}
         IN  IF cand = {} THEN flds
             ELSE LET i == CHOOSE j \in cand : \A k \in cand : j <= k
                  IN  [flds EXCEPT ![i] = Link(flds[i])]

\* strings.Contains(s, sub), for a non-empty sub
Contains(s, sub) ==
    \E i \in 1 .. (Len(s) - Len(sub) + 1) : SubSeq(s, i, i + Len(sub) - 1) = sub

\* ------------------------------------------- MarkupCmdOutput, on bytes
\* The engine above keeps a line as the sequence of its fields.  Where the
\* white space of a line matters, the function is taken on the bytes of the
\* line: a string, its fields found as bytes.Fields finds them.
IsSpace(ch) == ch \in {" ", "\t"}

\* bytes.Fields(s) from byte i on, cur being the field under way
RECURSIVE FieldsFrom(_, _, _)
FieldsFrom(s, i, cur) ==
    IF i > Len(s) THEN (IF cur = "" THEN <<>> ELSE <<cur>>)
    ELSE LET ch == SubSeq(s, i, i)
         IN  IF IsSpace(ch)
             THEN (IF cur = "" THEN <<>> ELSE <<cur>>) \o FieldsFrom(s, i + 1, "")
             ELSE FieldsFrom(s, i + 1, cur \o ch)

\* bytes.Fields
Fields(s) == FieldsFrom(s, 1, "")

\* bytes.Split(s, sep) for a separator of one byte: empty pieces are kept.
RECURSIVE SplitFrom(_, _, _, _)
SplitFrom(s, sep, i, cur) ==
    IF i > Len(s) THEN <<cur>>
    ELSE IF SubSeq(s, i, i) = sep THEN <<cur>> \o SplitFrom(s, sep, i + 1, "")
    ELSE SplitFrom(s, sep, i + 1, cur \o SubSeq(s, i, i))

BytesSplit(s, sep) == SplitFrom(s, sep, 1, "")

\* bytes.Join(flds, sep)
RECURSIVE BytesJoin(_, _)
BytesJoin(flds, sep) ==
    IF Len(flds) = 0 THEN ""
    ELSE IF Len(flds) = 1 THEN flds[1]
    ELSE flds[1] \o sep \o BytesJoin(Tail(flds), sep)

\* strings.HasPrefix, strings.TrimPrefix
HasPrefix(s, p) == Len(s) >= Len(p) /\ SubSeq(s, 1, Len(p)) = p
TrimPrefix(s, p) == IF HasPrefix(s, p) THEN SubSeq(s, Len(p) + 1, Len(s)) ELSE s

\* filepath.Join(dir, name) for a clean dir and a name without ".", ".." or
\* empty elements, on which the final Clean changes nothing; an empty name is
\* left out.
FilepathJoin(dir, name) == IF name = "" THEN dir ELSE dir \o "/" \o name

\* `extension or path`: the test of a field, line 366.
LooksLikeFile(ff) == Contains(ff, ".") \/ Contains(ff, "/")

\* The link that replaces the field ff (lines 369-391).
LinkOf(cpath, ff) ==
    LET fnflds == BytesSplit(ff, ":")
        pos == IF Len(fnflds) > 1 THEN fnflds[2] ELSE ""
        col == IF Len(fnflds) > 2 THEN fnflds[3] ELSE ""
        fn == IF HasPrefix(fnflds[1], cpath) THEN fnflds[1]
              ELSE FilepathJoin(cpath, TrimPrefix(fnflds[1], "./"))
    IN  IF col # ""
        THEN "<a href=\"file:///" \o fn \o "#L" \o pos \o "C" \o col \o "\">" \o ff \o "</a>"
        ELSE IF pos # ""
        THEN "<a href=\"file:///" \o fn \o "#L" \o pos \o "\">" \o ff \o "</a>"
        ELSE "<a href=\"file:///" \o fn \o "\">" \o ff \o "</a>"

\* The loop `for i := 0; i < mx; i++` from index i on (indices from 1 here).
RECURSIVE MarkupLoop(_, _, _, _)
MarkupLoop(cpath, flds, i, mx) ==
    IF i > mx THEN flds
    ELSE IF ~LooksLikeFile(flds[i]) THEN MarkupLoop(cpath, flds, i + 1, mx)
    ELSE [flds EXCEPT ![i] = LinkOf(cpath, flds[i])]

\* MarkupCmdOutput(out), out a line as bytes, under cpath =
\* ArgVarVals["{FileDirPath}"].
MarkupCmdOutputBytes(cpath, out) ==
    LET flds == Fields(out)
    IN  IF Len(flds) = 0 THEN out
        ELSE BytesJoin(MarkupLoop(cpath, flds, 1, MinInt(Len(flds), 2)), " ")

\* The lines given to MarkupCmdOutput: up to MaxFields fields, with or
\* without white space in front, one or two blanks between two fields.
MarkupWords == {"ok", "undefined:", "main.go:42:7", "./a/b.go:3", "/proj/sub/x.go"}
MarkupGaps == {" ", "  "}
MarkupLeads == {"", "\t"}
RECURSIVE MarkupTails(_)
MarkupTails(n) ==
    IF n = 0 THEN {""}
    ELSE {""} \cup {g \o w \o t : g \in MarkupGaps, w \in MarkupWords,
                                  t \in MarkupTails(n - 1)}
MarkupLines ==
    MarkupLeads \cup
    {l \o w \o t : l \in MarkupLeads, w \in MarkupWords, t \in MarkupTails(MaxFields - 1)}

\* ---------------------------------------------------------------- the sink
\* cm.Buf: nil (made = FALSE) or a TextBuf with its lines.
\* obj tells the TextBuf objects of one command apart: the number of
\* objects made for it so far.
NilBuf == [made |-> FALSE, lines |-> <<>>, obj |-> 0]
\* `&giv.TextBuf{}`: a new object, without lines.
NewTextBuf(buf) == [made |-> TRUE, lines |-> <<>>, obj |-> buf.obj + 1]
\* The TextBuf MakeBuf creates.
EmptyBuf == NewTextBuf(NilBuf)
\* TextBuf.New(0): the same object, cleared.
TextBufNew(buf) == [buf EXCEPT !.lines = <<>>]

\* (mutant) clear replaces the sink by a new one
MakeBufRecreate(buf, clear) ==
    IF buf.made
    THEN [buf |-> IF clear THEN NewTextBuf(buf) ELSE buf, ret |-> FALSE]
    ELSE [buf |-> NewTextBuf(buf), ret |-> TRUE]

\* Command.MakeBuf(clear): cm.Buf after the call, and the value returned.
MakeBufResult(buf, clear) ==
    IF buf.made
    THEN [buf |-> IF clear THEN TextBufNew(buf) ELSE buf, ret |-> FALSE]
    ELSE [buf |-> NewTextBuf(buf), ret |-> TRUE]

\* TextBuf.AppendTextLine
AppendTextLine(buf, line) == [buf EXCEPT !.lines = Append(@, line)]

\* (mutant) the pieces of out are appended last first
AppendCmdOutReversed(buf, out) ==
    IF ~buf.made THEN buf
    ELSE [buf EXCEPT !.lines =
              @ \o [i \in DOMAIN Split(out) |->
                        MarkupCmdOutput(Split(out)[Len(Split(out)) + 1 - i])]]

\* Command.AppendCmdOut: nothing without a sink, else every piece of out,
\* marked up, is appended.
AppendCmdOut(buf, out) ==
    IF ~buf.made THEN buf
    ELSE [buf EXCEPT !.lines =
              @ \o [i \in DOMAIN Split(out) |-> MarkupCmdOutput(Split(out)[i])]]

\* ------------------------------------------------------------- RunStatus
\* err: "nil", "ExitError" (*exec.ExitError), or another error
\* ("StartError": the launch failed; "NotStarted": cmd.Wait on a command that
\* was never started).
Errs == {"nil", "ExitError", "StartError", "NotStarted"}

\* The error of cmd.CombinedOutput() (viaWait = FALSE) or of cmd.Start()
\* followed by cmd.Wait() (viaWait = TRUE) for a process that was launched or
\* not and, if launched, exited with status code.
ExecErr(launched, code, viaWait) ==
    IF ~launched THEN (IF viaWait THEN "NotStarted" ELSE "StartError")
    ELSE IF code = 0 THEN "nil" ELSE "ExitError"

\* The return value of RunStatus.
RunStatusRval(err) == err = "nil"

\* finstat, as fields.
FinStat(cmdstr, err) ==
    cmdstr \o
    (CASE err = "nil" -> <<"<b>successful</b>", "at:", "<time>">>
       [] err = "ExitError" ->
            <<"<b>failed</b>", "at:", "<time>", "with", "error:", "exit status 1">>
       [] OTHER -> <<"<b>exec", "error</b>", "at:", "<time>", "error:", err>>)

\* cm.Buf.AppendTextLine is called on cm.Buf whether or not it is nil; a nil
\* *TextBuf has no line table to append to and the call panics.
RunStatusPanics(buf) == ~buf.made

\* The sink after the two AppendTextLine calls of RunStatus.
RunStatusBuf(buf, cmdstr, err) ==
    AppendTextLine(AppendTextLine(buf, <<>>), MarkupCmdOutput(FinStat(cmdstr, err)))

\* The bytes of a line and of an output.
LineBytes(line) == BytesJoin(line, " ")
OutBytes(out) == BytesJoin([i \in DOMAIN out.pieces |-> LineBytes(out.pieces[i])], "\n")

CmdOutStatusLen == 80
\* bytes.MinRead: the Buffer that CombinedOutput fills through ReadFrom has
\* at least this much room beyond what it read.
MinRead == 512

\* len(out) and cap(out) of what cmd.CombinedOutput() returned.
OutLen(out) == IF out.nil THEN 0 ELSE Len(OutBytes(out))
OutCap(out) == IF out.nil THEN 0 ELSE OutLen(out) + MinRead

\* `out[:CmdOutStatusLen]` panics when CmdOutStatusLen exceeds cap(out).
ExcerptPanics(out) == ~out.nil /\ CmdOutStatusLen > OutCap(out)

\* outstr: "" for a nil out, else string(out[:CmdOutStatusLen]), which is the
\* bytes of out up to CmdOutStatusLen and, for a shorter out, the `beyond`
\* bytes that follow it in its array.
OutStr(out) ==
    IF out.nil THEN [text |-> "", beyond |-> 0]
    ELSE [text |-> SubSeq(OutBytes(out), 1, MinInt(OutLen(out), CmdOutStatusLen)),
          beyond |-> IF OutLen(out) < CmdOutStatusLen
                     THEN CmdOutStatusLen - OutLen(out) ELSE 0]

\* ge.SetStatus(cmdstr + " " + outstr)
StatusText(cmdstr, out) ==
    [cmdstr |-> cmdstr, hasOut |-> ~out.nil, outstr |-> OutStr(out)]

\* -------------------------------------------------------------- registry
\* A Command as the registry sees it: Name, Desc and Langs (the steps, Dir
\* and Wait of a Command are those of CmdDefs above).
\* StdCmds: four of the compiled-in commands, in their order.
StdCmds ==
    << [Name |-> "Build Go File", Desc |-> "run go build to build in current dir",
        Langs |-> <<"Go">>],
       [Name |-> "Commit Git", Desc |-> "git commit", Langs |-> <<>>],
       [Name |-> "Commit SVN", Desc |-> "svn commit", Langs |-> <<>>],
       [Name |-> "List Dir", Desc |-> "list current dir -- just for testing",
        Langs |-> <<>>] >>

\* The user's commands: at most MaxCustom of these.  One name is the name
\* of a compiled-in command, the other is new and contains the names of both
\* version control systems.
CustomPool ==
    {[Name |-> "Commit Git", Desc |-> "custom 1", Langs |-> <<>>],
     [Name |-> "Git SVN Bridge", Desc |-> "custom 1", Langs |-> <<>>],
     [Name |-> "Git SVN Bridge", Desc |-> "custom 2", Langs |-> <<"LaTeX", "Go">>]}
SeqsUpTo(S, n) == UNION {[1 .. k -> S] : k \in 0 .. n}
CustomLists == SeqsUpTo(CustomPool, MaxCustom)

\* The active languages and the active version control name of a call.
LangSets == {<<>>, <<"Go">>, <<"LaTeX">>, <<"C", "Go">>}
VersCtrlSystems == <<"Git", "SVN">>
VersCtrlNames == {"", "Git", "SVN", "Hg"}

\* (mutant) without active languages every command matches
LangMatchNoActive(cm, langs) ==
    IF Len(cm.Langs) = 0 \/ Len(langs) = 0 THEN TRUE
    ELSE \E i \in DOMAIN cm.Langs : \E j \in DOMAIN langs : cm.Langs[i] = langs[j]

\* Command.LangMatch
LangMatch(cm, langs) ==
    IF Len(cm.Langs) = 0 THEN TRUE
    ELSE IF Len(langs) = 0 THEN FALSE
    ELSE \E i \in DOMAIN cm.Langs : \E j \in DOMAIN langs : cm.Langs[i] = langs[j]

\* Commands.LangCmdNames
LangCmdNames(cm, langs) ==
    LET sel == SelectSeq(cm, LAMBDA cmd : LangMatch(cmd, langs))
    IN  [i \in DOMAIN sel |-> sel[i].Name]

\* cmds = append(cmds[:i], cmds[i+1:]...) for the Go index i: cmds[i+1:]
\* panics when i+1 is beyond len(cmds).
RemoveAt(st, i) ==
    IF i + 1 > Len(st.cmds) THEN [st EXCEPT !.panic = TRUE]
    ELSE [st EXCEPT !.cmds = SubSeq(@, 1, i) \o SubSeq(@, i + 2, Len(@))]

\* The inner loop of VersCtrlCmdNames over VersCtrlSystems, from its v-th
\* entry on, for the name cmd that was read at index i.
RECURSIVE VersCtrlInner(_, _, _, _, _)
VersCtrlInner(st, i, cmd, vcnm, v) ==
    IF st.panic \/ v > Len(VersCtrlSystems) THEN st
    ELSE LET vcs == VersCtrlSystems[v]
         IN  IF vcs # vcnm /\ Contains(cmd, vcs)
             THEN VersCtrlInner(RemoveAt(st, i), i, cmd, vcnm, v + 1)
             ELSE VersCtrlInner(st, i, cmd, vcnm, v + 1)

\* The outer loop of VersCtrlCmdNames, from the Go index i down to 0.
RECURSIVE VersCtrlOuter(_, _, _)
VersCtrlOuter(st, i, vcnm) ==
    IF st.panic \/ i < 0 THEN st
    ELSE IF i >= Len(st.cmds) THEN [st EXCEPT !.panic = TRUE]
    ELSE LET cmd == st.cmds[i + 1]
         IN  IF Contains(cmd, vcnm) THEN VersCtrlOuter(st, i - 1, vcnm)
             ELSE VersCtrlOuter(VersCtrlInner(st, i, cmd, vcnm, 1), i - 1, vcnm)

\* VersCtrlCmdNames: the names left, or a panic.
VersCtrlCmdNames(vcnm, cmds) ==
    IF vcnm = "" THEN [cmds |-> cmds, panic |-> FALSE]
    ELSE VersCtrlOuter([cmds |-> cmds, panic |-> FALSE], Len(cmds) - 1, vcnm)

\* (mutant) the index returned is that of the first command of the list
CmdByNameFirstSlot(cm, name) ==
    IF \E i \in DOMAIN cm : cm[i].Name = name THEN [idx |-> 1, ok |-> TRUE]
    ELSE [idx |-> 0, ok |-> FALSE]

\* Commands.CmdByName: the first command of the name; idx 0 (-1 in Go) and
\* ok = FALSE when there is none.
CmdByName(cm, name) ==
    LET found == {i \in DOMAIN cm : cm[i].Name = name}
    IN  IF found = {} THEN [idx |-> 0, ok |-> FALSE]
        ELSE [idx |-> CHOOSE i \in found : \A j \in found : i <= j, ok |-> TRUE]

\* Commands.CopyFrom: a fresh list with the fields of cp, through JSON.
CopyFrom(cp) ==
    [i \in DOMAIN cp |->
        [Name |-> cp[i].Name, Desc |-> cp[i].Desc, Langs |-> cp[i].Langs]]

\* (mutant) the custom command is always appended
MergeCmdAppend(avail, cmd) == Append(avail, cmd)

\* The body of the loop of MergeAvailCmds for the custom command cmd.
MergeCmd(avail, cmd) ==
    LET f == CmdByName(avail, cmd.Name)
    IN  IF f.ok THEN [avail EXCEPT ![f.idx] = cmd] ELSE Append(avail, cmd)

\* The loop of MergeAvailCmds over the rest of CustomCmds.
RECURSIVE MergeLoop(_, _)
MergeLoop(avail, custom) ==
    IF custom = <<>> THEN avail
    ELSE MergeLoop(MergeCmd(avail, Head(custom)), Tail(custom))

\* The files OpenJSON is given: one that cannot be read, one that is not
\* JSON, one whose first record has a number for its "Desc", and one that
\* holds the list doc.
FileKinds == {"unreadable", "syntax error", "type error", "ok"}
JSONFiles ==
    [kind : {"unreadable", "syntax error"}, doc : {<<>>}] \cup
    [kind : {"type error", "ok"}, doc : SeqsUpTo(CustomPool, 1)]

\* Commands.OpenJSON: the list after the call and the error returned.  The
\* list is reset first; json.Unmarshal checks the syntax before it stores
\* anything, and on a field of the wrong type it leaves the field alone and
\* goes on.
OpenJSONResult(file) ==
    CASE file.kind = "unreadable" -> [cm |-> <<>>, err |-> "ReadFile"]
      [] file.kind = "syntax error" -> [cm |-> <<>>, err |-> "SyntaxError"]
      [] file.kind = "type error" ->
            [cm |-> [i \in DOMAIN file.doc |->
                        IF i = 1 THEN [file.doc[i] EXCEPT !.Desc = ""]
                        ELSE file.doc[i]],
             err |-> "UnmarshalTypeError"]
      [] OTHER -> [cm |-> file.doc, err |-> "nil"]

\* No library call yet.
NoCall == [op |-> "", args |-> <<>>, ret |-> <<>>]

\* ------------------------------------------------------- gidebug.Status
\* The constants of the enumeration, NotInit = 0 .. StatusN = 7.
StatusN == 7
Status_name == "NotInitErrorBuildingReadyRunningStoppedFinishedStatusN"
Status_index == <<0, 7, 12, 20, 25, 32, 39, 47, 54>>

\* s[lo:hi] of Go, for a string
Slice(str, lo, hi) == SubSeq(str, lo + 1, hi)

\* (mutant) the last name of the table is not used
StatusStringShort(i) ==
    IF i < 0 \/ i >= Len(Status_index) - 2 THEN "Status(" \o ToString(i) \o ")"
    ELSE Slice(Status_name, Status_index[i + 1], Status_index[i + 2])

\* Status.String
StatusString(i) ==
    IF i < 0 \/ i >= Len(Status_index) - 1 THEN "Status(" \o ToString(i) \o ")"
    ELSE Slice(Status_name, Status_index[i + 1], Status_index[i + 2])

\* (mutant) the value stored is one more than the index of the name
StatusFromStringNext(recv, str) ==
    LET hits == {j \in 0 .. (Len(Status_index) - 2) :
                    str = Slice(Status_name, Status_index[j + 1], Status_index[j + 2])}
    IN  IF hits = {} THEN [val |-> recv, err |-> "not a valid option"]
        ELSE [val |-> (CHOOSE j \in hits : \A k \in hits : j <= k) + 1, err |-> "nil"]

\* Status.FromString on the receiver recv: the receiver after the call and
\* the error.  The loop stores the first j whose name is str.
StatusFromString(recv, str) ==
    LET hits == {j \in 0 .. (Len(Status_index) - 2) :
                    str = Slice(Status_name, Status_index[j + 1], Status_index[j + 2])}
    IN  IF hits = {} THEN [val |-> recv, err |-> "not a valid option"]
        ELSE [val |-> CHOOSE j \in hits : \A k \in hits : j <= k, err |-> "nil"]

\* The values String is called with and the strings FromString is given.
StatusInts == (0 - MaxBeyond) .. (StatusN + MaxBeyond)
StatusStrings ==
    {StatusString(i) : i \in StatusInts} \cup
    {"Bogus", "", "ready", "READY", "Ready ", "Read", "NotInitError", "tInit"}

\* ----------------------------------------------------- gidebug.Variable
\* A Variable: Nm, Value, ElValue, TypeStr, whether Kind.IsPtr(), List, and
\* Map, MapVar and Kids.  Map and MapVar are sequences of [key, val] in the
\* order in which the range statement of this call visits the map.
Var(nm, typ) ==
    [Nm |-> nm, TypeStr |-> typ, Value |-> "", ElValue |-> "", IsPtr |-> FALSE,
     List |-> <<>>, Map |-> <<>>, MapVar |-> <<>>, Kids |-> <<>>]

VarLeaves ==
    {[Var("n", "int") EXCEPT !.Value = "7"],
     [Var("s", "string") EXCEPT !.ElValue = "hi"],
     [Var("xs", "[]int") EXCEPT !.List = <<"a", "b", "c">>],
     [Var("m", "map[string]int") EXCEPT
         !.Map = <<[key |-> "k", val |-> "1"], [key |-> "j", val |-> "2"]>>],
     [Var("m", "map[string]int") EXCEPT
         !.Map = <<[key |-> "j", val |-> "2"], [key |-> "k", val |-> "1"]>>],
     Var("", "T")}

\* Variables with leaves below them: structs, pointers (one with two
\* children), maps of variables, and one with a list, a map of variables
\* and children at once.
VarInner(below) ==
    {[Var("st", "S") EXCEPT !.Kids = kids] :
        kids \in UNION {[1 .. k -> below] : k \in 1 .. MaxKids}}
    \cup {[Var("p", "*T") EXCEPT !.IsPtr = TRUE, !.Kids = <<k>>] : k \in below}
    \cup {[Var("pp", "*T") EXCEPT !.IsPtr = TRUE, !.Kids = <<k, k>>] : k \in below}
    \cup {[Var("mv", "map[string]T") EXCEPT
              !.MapVar = <<[key |-> "a", val |-> k1], [key |-> "b", val |-> k2]>>] :
              k1 \in below, k2 \in below}
    \cup {[Var("mix", "M") EXCEPT
              !.List = <<"a", "b">>,
              !.MapVar = <<[key |-> "a", val |-> k]>>, !.Kids = <<k>>] : k \in below}

VarOuter(below) ==
    {[Var("top", "S") EXCEPT !.Kids = <<k>>] : k \in below}
    \cup {[Var("p", "*S") EXCEPT !.IsPtr = TRUE, !.Kids = <<k>>] : k \in below}

Variables == VarLeaves \cup VarInner(VarLeaves) \cup VarOuter(VarInner(VarLeaves))

\* tabSz of ValueString, and indent.String(indent.Space, n, tabSz)
TabSz == 2
RECURSIVE Spaces(_)
Spaces(n) == IF n <= 0 THEN "" ELSE " " \o Spaces(n - 1)
IndentString(n) == Spaces(n * TabSz)

\* The loop over vr.List: "i: el", with ", " between the elements.
RECURSIVE ListString(_, _)
ListString(list, i) ==
    IF i > Len(list) THEN ""
    ELSE ToString(i - 1) \o ": " \o list[i]
         \o (IF i - 1 < Len(list) - 1 THEN ", " ELSE "")
         \o ListString(list, i + 1)

\* The loop over vr.Map: "k: v, " for every entry.
RECURSIVE MapString(_, _)
MapString(map, i) ==
    IF i > Len(map) THEN ""
    ELSE map[i].key \o ": " \o map[i].val \o ", " \o MapString(map, i + 1)

\* (mutant) the depth test allows one level more
DepthExceededLate(ident, maxdepth) == ident > maxdepth + 1

\* The depth test of ValueString.
DepthExceeded(ident, maxdepth) == ident > maxdepth

RECURSIVE ValueString(_, _, _, _, _, _)
RECURSIVE MapVarLoop(_, _, _, _, _, _, _)
RECURSIVE KidsLoop(_, _, _, _, _, _, _)

\* The loop over vr.MapVar from its i-th entry on; b is the builder's text.
MapVarLoop(b, mv, i, newlines, ident, maxdepth, maxlen) ==
    IF i > Len(mv) THEN b
    ELSE LET b1 == b \o (IF newlines THEN "\n" \o IndentString(ident + 1) ELSE "")
                     \o mv[i].key \o ": "
                     \o ValueString(mv[i].val, newlines, ident + 1, maxdepth,
                                    maxlen, FALSE)
         IN  IF Len(b1) > maxlen THEN b1 \o "..."
             ELSE MapVarLoop(IF newlines THEN b1 ELSE b1 \o ", ", mv, i + 1,
                             newlines, ident, maxdepth, maxlen)

\* The loop over vr.Kids from its i-th child on.
KidsLoop(b, kids, i, newlines, ident, maxdepth, maxlen) ==
    IF i > Len(kids) THEN b
    ELSE LET ve == kids[i]
             b1 == b \o (IF newlines THEN "\n" \o IndentString(ident + 1) ELSE "")
                     \o (IF ve.Nm # "" THEN ve.Nm \o ": " ELSE "")
                     \o ValueString(ve, newlines, ident + 1, maxdepth, maxlen, TRUE)
         IN  IF Len(b1) > maxlen THEN b1 \o "..."
             ELSE KidsLoop(IF newlines THEN b1 ELSE b1 \o ", ", kids, i + 1,
                           newlines, ident, maxdepth, maxlen)

\* Variable.ValueString
ValueString(vr, newlines, ident, maxdepth, maxlen, outType) ==
    IF vr.Value # "" THEN vr.Value
    ELSE IF vr.ElValue # "" THEN vr.ElValue
    ELSE IF vr.IsPtr /\ Len(vr.Kids) = 1
    THEN "*" \o ValueString(vr.Kids[1], newlines, ident, maxdepth, maxlen, TRUE)
    ELSE LET b0 == (IF outType THEN vr.TypeStr ELSE "") \o " {"
             close == (IF newlines THEN "\n" \o IndentString(ident) ELSE "") \o "}"
         IN  IF DepthExceeded(ident, maxdepth) THEN b0 \o "..." \o close
             ELSE LET b1 == b0 \o ListString(vr.List, 1)
                      b2 == b1 \o MapString(vr.Map, 1)
                      b3 == MapVarLoop(b2, vr.MapVar, 1, newlines, ident, maxdepth,
                                       maxlen)
                      b4 == KidsLoop(b3, vr.Kids, 1, newlines, ident, maxdepth, maxlen)
                  IN  b4 \o close

\* The arguments ValueString is called with.
Idents == {0, 1}
MaxDepths == {0, 1}
MaxLens == {0, 12, 100}

\* ----------------------------------------------------------------- state
VARIABLES
    Cmds,            \* the Commands: id -> definition (Cmds, Dir, Wait)
    Buf,             \* command id -> cm.Buf
    CmdNoUserPrompt, \* the package variable
    ArgVarVals,      \* the package's variable values
    cwd,             \* the process's working directory
    statusBar,       \* what ge.SetStatus last set
    fg,              \* the run on the foreground call path, 0 if none
    panicked,        \* "" or the panic that ended the process
    run,             \* the Run invocations: id -> state and history
    AvailCmds,       \* the package variable: the effective command list
    CustomCmds,      \* the package variable: the user's command list
    call             \* the last library call: operation, arguments, result

\* The variables of the command registry and of the library calls; the
\* steps of a run leave them alone.
libvars == <<AvailCmds, CustomCmds, call>>

vars == <<Cmds, Buf, CmdNoUserPrompt, ArgVarVals, cwd, statusBar, fg, panicked, run,
          AvailCmds, CustomCmds, call>>

\* A Run invocation passes through RunAfterPrompts at most twice: from Run
\* itself and from the callback of the last accepted dialog.
Passes == 1 .. 2

NoRun ==
    [cm |-> "", pc |-> "none", via |-> "", idx |-> 0, withBuf |-> FALSE,
     sz |-> 0, cnt |-> 0, open |-> {}, pv |-> "",
     bg |-> [p \in Passes |-> [st |-> "none", withBuf |-> FALSE, n |-> 0]],
     \* history
     suppressed |-> FALSE, nRAP |-> 0,
     asked |-> [t \in PromptTokens |-> 0], accepted |-> <<>>,
     cancelled |-> {}, chdirs |-> <<>>, started |-> <<>>, execd |-> <<>>,
     restores |-> 0]

InitRun(cmds, bufs, nruns) ==
    /\ Cmds = cmds
    /\ Buf = bufs
    /\ CmdNoUserPrompt = FALSE
    /\ ArgVarVals = ArgVarValsInit
    /\ cwd = ProjRoot
    /\ statusBar = [cmdstr |-> <<>>, hasOut |-> FALSE,
                    outstr |-> [text |-> "", beyond |-> 0]]
    /\ fg = 0
    /\ panicked = ""
    /\ run = [r \in 1 .. nruns |-> NoRun]

\* The state after the package's init(): AvailCmds is a copy of StdCmds.
InitWith(cmds, bufs, nruns) ==
    /\ InitRun(cmds, bufs, nruns)
    /\ AvailCmds = StdCmds
    /\ CustomCmds = <<>>
    /\ call = NoCall

\* One Run invocation of one command, of any definition.
Init == \E d \in CmdDefs : InitWith([c \in {"c1"} |-> d], [c \in {"c1"} |-> NilBuf], 1)

\* Two Run invocations over two commands with sinks, run in the foreground.
InitWait ==
    \E d1 \in CmdDefsWait1, d2 \in CmdDefsWait2 :
        InitWith([c \in CmdIds |-> IF c = "c1" THEN d1 ELSE d2],
                 [c \in CmdIds |-> EmptyBuf], 2)

\* Two Run invocations over two commands, each with or without a sink (made
\* by MakeBuf before the first Run).
InitTwo ==
    \E d1 \in CmdDefs1, d2 \in CmdDefs2, b \in [CmdIds -> {NilBuf, EmptyBuf}] :
        InitWith([c \in CmdIds |-> IF c = "c1" THEN d1 ELSE d2], b, 2)

Alive == panicked = ""
Def(r) == Cmds[run[r].cm]


\* --------------------------------------------------------------- prompts
\* The callbacks of PromptUser capture the loop variable pv, which ends as
\* the last key of the (randomly ordered) iteration over pvals.
LastKeys(pvals) == IF pvals = {} THEN {""} ELSE pvals

\* Command.PromptUser on the record of run r: one dialog per prompt value,
\* with the callbacks' shared counter cnt and sz = len(pvals).
PromptUser(rec, pvals, last) ==
    [rec EXCEPT !.sz = Cardinality(pvals), !.cnt = 0, !.open = pvals, !.pv = last,
                !.asked = [t \in PromptTokens |->
                              IF t \in pvals THEN @[t] + 1 ELSE @[t]]]

\* (mutant) the callback runs the command on any accepted dialog
AllAcceptedAny(rec) == rec.cnt >= 1

\* The callback's test `cnt == sz`.
AllAccepted(rec) == rec.cnt = rec.sz

\* (mutant) RunAfterPrompts leaves the flag as it is
KeepNoUserPrompt(flag) == flag

\* The first statement of RunAfterPrompts: CmdNoUserPrompt = false.
ResetNoUserPrompt(flag) == FALSE

\* The entry into RunAfterPrompts.
EnterRunAfterPrompts(rec, how) ==
    [rec EXCEPT !.pc = "chdir", !.via = how, !.nRAP = @ + 1]

\* Command.Run.  Without prompts, or with CmdNoUserPrompt set, it calls
\* RunAfterPrompts (and goes on to PromptUser when that returns, see
\* RestoreDir); otherwise it calls PromptUser and returns.
Run(r, c) ==
    /\ Alive /\ fg = 0
    /\ run[r].pc = "none"
    /\ \A q \in DOMAIN run : q < r => run[q].pc # "none"
    /\ LET pvals == HasPrompts(Cmds[c])
           hasp == pvals # {}
           rec == [run[r] EXCEPT !.cm = c, !.suppressed = CmdNoUserPrompt]
       IN  IF ~hasp \/ CmdNoUserPrompt
           THEN /\ run' = [run EXCEPT ![r] = EnterRunAfterPrompts(rec, "Run")]
                /\ fg' = r
                /\ CmdNoUserPrompt' = ResetNoUserPrompt(CmdNoUserPrompt)
           ELSE /\ \E last \in LastKeys(pvals) :
                      run' = [run EXCEPT ![r] =
                                 [PromptUser(rec, pvals, last) EXCEPT !.pc = "returned"]]
                /\ UNCHANGED <<fg, CmdNoUserPrompt>>
    /\ UNCHANGED <<Cmds, Buf, ArgVarVals, cwd, statusBar, panicked>>
    /\ UNCHANGED libvars

\* The dialog callback with sig = DialogAccepted: the value is stored under
\* pv and the shared counter decides whether to run.
Accept(r, tok) ==
    /\ Alive /\ fg = 0
    /\ run[r].pc = "returned"
    /\ tok \in run[r].open
    /\ ArgVarVals' = [ArgVarVals EXCEPT ![run[r].pv] = "val"]
    /\ LET rec == [run[r] EXCEPT !.open = @ \ {tok}, !.cnt = @ + 1,
                                 !.accepted = Append(@, tok)]
       IN  IF AllAccepted(rec)
           THEN /\ run' = [run EXCEPT ![r] = EnterRunAfterPrompts(rec, "Accept")]
                /\ fg' = r
                /\ CmdNoUserPrompt' = ResetNoUserPrompt(CmdNoUserPrompt)
           ELSE /\ run' = [run EXCEPT ![r] = rec]
                /\ UNCHANGED <<fg, CmdNoUserPrompt>>
    /\ UNCHANGED <<Cmds, Buf, cwd, statusBar, panicked>>
    /\ UNCHANGED libvars

\* The dialog callback with any other signal (the user dismissed the dialog).
Cancel(r, tok) ==
    /\ Alive /\ fg = 0
    /\ run[r].pc = "returned"
    /\ tok \in run[r].open
    /\ run' = [run EXCEPT ![r] = [@ EXCEPT !.open = @ \ {tok},
                                           !.cancelled = @ \cup {tok}]]
    /\ UNCHANGED <<Cmds, Buf, CmdNoUserPrompt, ArgVarVals, cwd, statusBar, fg,
                   panicked>>
    /\ UNCHANGED libvars

\* A caller sets CmdNoUserPrompt.
SetNoUserPrompt ==
    /\ Alive /\ fg = 0
    /\ ~CmdNoUserPrompt
    /\ CmdNoUserPrompt' = TRUE
    /\ UNCHANGED <<Cmds, Buf, ArgVarVals, cwd, statusBar, fg, panicked, run>>
    /\ UNCHANGED libvars

\* Command.MakeBuf
MakeBuf(c, clear) ==
    /\ Alive /\ fg = 0
    /\ Buf' = [Buf EXCEPT ![c] = MakeBufResult(@, clear).buf]
    /\ call' = [op |-> "MakeBuf", args |-> <<c, clear>>,
                ret |-> <<MakeBufResult(Buf[c], clear).ret>>]
    /\ UNCHANGED <<Cmds, CmdNoUserPrompt, ArgVarVals, cwd, statusBar, fg,
                   panicked, run>>
    /\ UNCHANGED <<AvailCmds, CustomCmds>>

\* ------------------------------------------------------- RunAfterPrompts
\* os.Chdir(d): the directory after the call.
Chdir(d, cur) == IF d \in ExistingDirs THEN d ELSE cur

\* The lines RunAfterPrompts appends for cm.Dir.
CdLine(cds, dir) == Text(<<"cd", cds, "(from:", dir \o ")">>)
CdErrLine(cds) ==
    Text(<<"Could", "not", "change", "to", "directory", cds, "--", "error:",
           "chdir:", "no such file or directory">>)

\* The sink after the one or two AppendCmdOut calls that follow os.Chdir.
ChdirReport(buf, cds, dir, failed) ==
    IF failed THEN AppendCmdOut(AppendCmdOut(buf, CdLine(cds, dir)), CdErrLine(cds))
    ELSE AppendCmdOut(buf, CdLine(cds, dir))

\* (mutant) the final Chdir names a variable that does not exist
ProjCdsTypo(vals) == BindArgVars(vals, "{ProjDir}")

\* (mutant) the final Chdir goes to the build directory
ProjCdsBuild(vals) == BindArgVars(vals, "{BuildDir}")

\* cds of the final Chdir: BindArgVars("{ProjPath}").
ProjCds(vals) == BindArgVars(vals, ProjPathVar)

\* What follows the directory change: the loop when cm.Wait or more than one
\* step, else the single background step.
Sync(cm) == cm.Wait \/ Len(cm.Cmds) > 1

\* RunAfterPrompts up to its choice of mode (the flag was cleared on entry).
ChangeDir(r) ==
    /\ Alive /\ fg = r
    /\ run[r].pc = "chdir"
    /\ LET c == run[r].cm
           cm == Def(r)
           cds == BindArgVars(ArgVarVals, cm.Dir)
           failed == cds \notin ExistingDirs
           rec == IF cm.Dir = "" THEN run[r]
                  ELSE [run[r] EXCEPT !.chdirs =
                            Append(@, [dir |-> cds, err |-> failed,
                                       pass |-> run[r].nRAP])]
       IN  /\ IF cm.Dir = ""
              THEN UNCHANGED <<cwd, Buf>>
              ELSE /\ cwd' = Chdir(cds, cwd)
                   /\ Buf' = [Buf EXCEPT ![c] = ChdirReport(@, cds, cm.Dir, failed)]
           /\ IF Sync(cm)
              THEN /\ run' = [run EXCEPT ![r] =
                                 [rec EXCEPT !.idx = 1,
                                             !.pc = IF Len(cm.Cmds) = 0
                                                    THEN "restore" ELSE "spawn"]]
                   /\ UNCHANGED panicked
              ELSE IF Len(cm.Cmds) = 0
                   THEN \* &cm.Cmds[0] of an empty slice
                        /\ panicked' = "index out of range"
                        /\ run' = [run EXCEPT ![r] = [rec EXCEPT !.pc = "panic"]]
                   ELSE /\ run' = [run EXCEPT ![r] = [rec EXCEPT !.idx = 1, !.pc = "go"]]
                        /\ UNCHANGED panicked
    /\ UNCHANGED <<Cmds, CmdNoUserPrompt, ArgVarVals, statusBar, fg>>
    /\ UNCHANGED libvars


\* The history entry of a step that RunStatus reported.
Executed(k, p, inBg, launched, code, err, line, out) ==
    [step |-> k, pass |-> p, bg |-> inBg, launched |-> launched, code |-> code,
     err |-> err, ok |-> RunStatusRval(err), line |-> line,
     outlen |-> OutLen(out), outstr |-> OutStr(out)]

\* The loop after step k returned rval: on to the next step, or the end
\* (break, or no step left).
AfterStep(rec, k, rval, nsteps) ==
    [rec EXCEPT !.idx = IF rval /\ k < nsteps THEN k + 1 ELSE k,
                !.pc = IF rval /\ k < nsteps THEN "spawn" ELSE "restore"]

\* The end of RunNoBuf / RunBufWait for step k of the loop: AppendCmdOut (with
\* a sink) and RunStatus.
EndStepWait(r, rec, launched, code, out) ==
    LET c == rec.cm
        k == rec.idx
        err == ExecErr(launched, code, FALSE)
        cmdstr == PrepCmd(ArgVarVals, Def(r).Cmds[k])
        buf == IF rec.withBuf THEN AppendCmdOut(Buf[c], out) ELSE Buf[c]
        line == MarkupCmdOutput(FinStat(cmdstr, err))
    IN  IF ExcerptPanics(out) \/ RunStatusPanics(buf)
        THEN /\ panicked' = IF ExcerptPanics(out) THEN "slice bounds out of range"
                            ELSE "nil Buf"
             /\ run' = [run EXCEPT ![r] = [rec EXCEPT !.pc = "panic"]]
             /\ UNCHANGED <<Buf, statusBar>>
        ELSE /\ Buf' = [Buf EXCEPT ![c] = RunStatusBuf(buf, cmdstr, err)]
             /\ statusBar' = StatusText(cmdstr, out)
             /\ run' = [run EXCEPT ![r] =
                           AfterStep([rec EXCEPT !.execd =
                                          Append(@, Executed(k, rec.nRAP, FALSE,
                                                             launched, code, err, line,
                                                             out))],
                                     k, RunStatusRval(err), Len(Def(r).Cmds))]
             /\ UNCHANGED panicked

\* One iteration of the loop up to the start of the step's process
\* (PrepCmd, CombinedOutput).  A launch error ends the step at once, with a
\* nil out.
SpawnStep(r) ==
    /\ Alive /\ fg = r
    /\ run[r].pc = "spawn"
    /\ \E launched \in BOOLEAN :
          LET rec == [run[r] EXCEPT
                         !.withBuf = Buf[run[r].cm].made,
                         !.started = Append(@, [step |-> run[r].idx, cwd |-> cwd,
                                                pass |-> run[r].nRAP, bg |-> FALSE,
                                                launched |-> launched])]
          IN  IF launched
              THEN /\ run' = [run EXCEPT ![r] = [rec EXCEPT !.pc = "wait"]]
                   /\ UNCHANGED <<Buf, statusBar, panicked>>
              ELSE EndStepWait(r, rec, FALSE, -1, NilOut)
    /\ UNCHANGED <<Cmds, CmdNoUserPrompt, ArgVarVals, cwd, fg>>
    /\ UNCHANGED libvars

\* The step's process exits; CombinedOutput returns its output and RunNoBuf /
\* RunBufWait finish.
ExitStep(r) ==
    /\ Alive /\ fg = r
    /\ run[r].pc = "wait"
    /\ \E oc \in ExitOutcomes : EndStepWait(r, run[r], TRUE, oc.code, ProcOut(oc.n))
    /\ UNCHANGED <<Cmds, CmdNoUserPrompt, ArgVarVals, cwd, fg>>
    /\ UNCHANGED libvars

\* The else branch: `go cm.RunNoBuf(ge, cma)` or `go cm.RunBuf(ge, cma)`.
GoStep(r) ==
    /\ Alive /\ fg = r
    /\ run[r].pc = "go"
    /\ run' = [run EXCEPT ![r] =
                  [@ EXCEPT !.pc = "restore",
                            !.bg[run[r].nRAP] =
                                [st |-> "spawn", withBuf |-> Buf[run[r].cm].made,
                                 n |-> 0]]]
    /\ UNCHANGED <<Cmds, Buf, CmdNoUserPrompt, ArgVarVals, cwd, statusBar, fg,
                   panicked>>
    /\ UNCHANGED libvars

\* The end of RunAfterPrompts and the return to its caller: the working
\* directory goes back to {ProjPath}; Run then calls PromptUser(pvals), a
\* dialog callback just returns.
RestoreDir(r) ==
    /\ Alive /\ fg = r
    /\ run[r].pc = "restore"
    /\ cwd' = Chdir(ProjCds(ArgVarVals), cwd)
    /\ LET rec == [run[r] EXCEPT !.pc = "returned", !.restores = @ + 1]
       IN  IF rec.via = "Run"
           THEN \E last \in LastKeys(HasPrompts(Def(r))) :
                   run' = [run EXCEPT ![r] =
                              PromptUser(rec, HasPrompts(Def(r)), last)]
           ELSE run' = [run EXCEPT ![r] = rec]
    /\ fg' = 0
    /\ UNCHANGED <<Cmds, Buf, CmdNoUserPrompt, ArgVarVals, statusBar, panicked>>
    /\ UNCHANGED libvars

\* ------------------------------------------------- the background step
\* RunStatus at the end of the goroutine of pass p of run r.
EndStepBg(r, p, rec, launched, code, out) ==
    LET c == rec.cm
        err == ExecErr(launched, code, rec.bg[p].withBuf)
        cmdstr == PrepCmd(ArgVarVals, Def(r).Cmds[1])
        line == MarkupCmdOutput(FinStat(cmdstr, err))
    IN  IF ExcerptPanics(out) \/ RunStatusPanics(Buf[c])
        THEN /\ panicked' = IF ExcerptPanics(out) THEN "slice bounds out of range"
                            ELSE "nil Buf"
             /\ run' = [run EXCEPT ![r] = [rec EXCEPT !.bg[p].st = "panic"]]
             /\ UNCHANGED <<Buf, statusBar>>
        ELSE /\ Buf' = [Buf EXCEPT ![c] = RunStatusBuf(@, cmdstr, err)]
             /\ statusBar' = StatusText(cmdstr, out)
             /\ run' = [run EXCEPT ![r] =
                           [rec EXCEPT !.bg[p].st = "done",
                                       !.execd = Append(@, Executed(1, p, TRUE, launched,
                                                                    code, err, line, out))]]
             /\ UNCHANGED panicked

\* The goroutine prepares and starts the process.  RunBuf goes on to
\* cmd.Wait() after a failed Start, which reports "not started".
BgSpawn(r, p) ==
    /\ Alive
    /\ run[r].bg[p].st = "spawn"
    /\ \E launched \in BOOLEAN :
          LET rec == [run[r] EXCEPT
                         !.started = Append(@, [step |-> 1, cwd |-> cwd, pass |-> p,
                                                bg |-> TRUE, launched |-> launched])]
          IN  IF launched
              THEN /\ run' = [run EXCEPT ![r] = [rec EXCEPT !.bg[p].st = "wait"]]
                   /\ UNCHANGED <<Buf, statusBar, panicked>>
              ELSE EndStepBg(r, p, rec, FALSE, -1, NilOut)
    /\ UNCHANGED <<Cmds, CmdNoUserPrompt, ArgVarVals, cwd, fg>>
    /\ UNCHANGED libvars

\* RunBuf: the scanner delivers the next line of the running process.
BgLine(r, p) ==
    /\ Alive
    /\ run[r].bg[p].st = "wait" /\ run[r].bg[p].withBuf
    /\ run[r].bg[p].n < MaxOut
    /\ Buf' = [Buf EXCEPT ![run[r].cm] =
                  AppendTextLine(@, MarkupCmdOutput(OutLine(run[r].bg[p].n + 1)))]
    /\ run' = [run EXCEPT ![r] = [@ EXCEPT !.bg[p].n = @ + 1]]
    /\ UNCHANGED <<Cmds, CmdNoUserPrompt, ArgVarVals, cwd, statusBar, fg, panicked>>
    /\ UNCHANGED libvars

\* The background process exits: RunBuf passes a nil out to RunStatus,
\* RunNoBuf the captured output.
BgExit(r, p) ==
    /\ Alive
    /\ run[r].bg[p].st = "wait"
    /\ \E oc \in ExitOutcomes :
          /\ run[r].bg[p].withBuf => run[r].bg[p].n = oc.n
          /\ EndStepBg(r, p, run[r], TRUE, oc.code,
                       IF run[r].bg[p].withBuf THEN NilOut ELSE ProcOut(oc.n))
    /\ UNCHANGED <<Cmds, CmdNoUserPrompt, ArgVarVals, cwd, fg>>
    /\ UNCHANGED libvars

\* ------------------------------------------------------------------ Next
Next ==
    \/ \E r \in DOMAIN run, c \in DOMAIN Cmds : Run(r, c)
    \/ \E r \in DOMAIN run, tok \in PromptTokens : Accept(r, tok)
    \/ \E r \in DOMAIN run, tok \in PromptTokens : Cancel(r, tok)
    \/ SetNoUserPrompt
    \/ \E c \in DOMAIN Cmds, clear \in BOOLEAN : MakeBuf(c, clear)
    \/ \E r \in DOMAIN run : ChangeDir(r)
    \/ \E r \in DOMAIN run : SpawnStep(r)
    \/ \E r \in DOMAIN run : ExitStep(r)
    \/ \E r \in DOMAIN run : GoStep(r)
    \/ \E r \in DOMAIN run : RestoreDir(r)
    \/ \E r \in DOMAIN run, p \in Passes : BgSpawn(r, p)
    \/ \E r \in DOMAIN run, p \in Passes : BgLine(r, p)
    \/ \E r \in DOMAIN run, p \in Passes : BgExit(r, p)

Spec == Init /\ [][Next]_vars

\* ------------------------------------------------- the command registry
\* The variables of a run, which the registry leaves alone.
runvars == <<Cmds, Buf, CmdNoUserPrompt, ArgVarVals, cwd, statusBar, fg, run>>

\* The user edits the list of custom commands: a command is added at the
\* end, or the last one is deleted.
EditCustomCmds(cmds) ==
    /\ Alive
    /\ \/ \E cmd \in CustomPool : cmds = Append(CustomCmds, cmd)
       \/ CustomCmds # <<>> /\ cmds = SubSeq(CustomCmds, 1, Len(CustomCmds) - 1)
    /\ CustomCmds' = cmds
    /\ call' = [op |-> "EditCustomCmds", args |-> <<>>, ret |-> <<>>]
    /\ UNCHANGED <<AvailCmds, panicked, runvars>>

\* MergeAvailCmds
MergeAvailCmds ==
    /\ Alive
    /\ AvailCmds' = MergeLoop(CopyFrom(StdCmds), CustomCmds)
    /\ call' = [op |-> "MergeAvailCmds", args |-> <<>>, ret |-> <<>>]
    /\ UNCHANGED <<CustomCmds, panicked, runvars>>

\* CustomCmds.OpenJSON(filename)
OpenJSON(file) ==
    /\ Alive
    /\ CustomCmds' = OpenJSONResult(file).cm
    /\ call' = [op |-> "OpenJSON", args |-> <<file.kind, CustomCmds>>,
                ret |-> OpenJSONResult(file).err]
    /\ UNCHANGED <<AvailCmds, panicked, runvars>>

\* AvailCmds.FilterCmdNames(langs, vcnm)
FilterCmdNames(langs, vcnm) ==
    /\ Alive
    /\ LET names == LangCmdNames(AvailCmds, langs)
           res == VersCtrlCmdNames(vcnm, names)
       IN  /\ call' = [op |-> "FilterCmdNames", args |-> <<langs, vcnm, names>>,
                       ret |-> res]
           /\ panicked' = IF res.panic THEN "slice bounds out of range" ELSE panicked
    /\ UNCHANGED <<AvailCmds, CustomCmds, runvars>>

\* The registry on its own: no Run is made.
InitCmds ==
    InitWith([c \in {"c1"} |-> [Cmds |-> <<StepPlain>>, Dir |-> "", Wait |-> TRUE]],
             [c \in {"c1"} |-> NilBuf], 1)

NextCmds ==
    \/ \E cmds \in CustomLists : EditCustomCmds(cmds)
    \/ MergeAvailCmds
    \/ \E file \in JSONFiles : OpenJSON(file)
    \/ \E langs \in LangSets, vcnm \in VersCtrlNames : FilterCmdNames(langs, vcnm)

SpecCmds == InitCmds /\ [][NextCmds]_vars

\* ------------------------------------------------------ package gidebug
\* The calls of the functions of package gidebug, before they are made.
Pending(fn, args) == [op |-> "call", args |-> <<fn>> \o args, ret |-> <<>>]
DebugCalls ==
    {Pending("String", <<i>>) : i \in StatusInts}
    \cup {Pending("FromString", <<recv, str>>) :
             recv \in 0 .. StatusN, str \in StatusStrings}
    \cup {Pending("ValueString", <<vr, nl, ident, maxdepth, maxlen, outType>>) :
             vr \in Variables, nl \in BOOLEAN, ident \in Idents,
             maxdepth \in MaxDepths, maxlen \in MaxLens, outType \in BOOLEAN}

Called(fn) == call.op = "call" /\ call.args[1] = fn

\* i.String()
String ==
    /\ Called("String")
    /\ call' = [op |-> "String", args |-> Tail(call.args),
                ret |-> StatusString(call.args[2])]
    /\ UNCHANGED <<AvailCmds, CustomCmds, panicked, runvars>>

\* i.FromString(s)
FromString ==
    /\ Called("FromString")
    /\ call' = [op |-> "FromString", args |-> Tail(call.args),
                ret |-> StatusFromString(call.args[2], call.args[3])]
    /\ UNCHANGED <<AvailCmds, CustomCmds, panicked, runvars>>

\* vr.ValueString(newlines, ident, maxdepth, maxlen, outType)
ValueStringCall ==
    /\ Called("ValueString")
    /\ call' = [op |-> "ValueString", args |-> Tail(call.args),
                ret |-> ValueString(call.args[2], call.args[3], call.args[4],
                                    call.args[5], call.args[6], call.args[7])]
    /\ UNCHANGED <<AvailCmds, CustomCmds, panicked, runvars>>

InitDebug ==
    /\ InitRun([c \in {"c1"} |-> [Cmds |-> <<StepPlain>>, Dir |-> "", Wait |-> TRUE]],
               [c \in {"c1"} |-> NilBuf], 1)
    /\ AvailCmds = StdCmds
    /\ CustomCmds = <<>>
    /\ call \in DebugCalls

NextDebug == String \/ FromString \/ ValueStringCall

SpecDebug == InitDebug /\ [][NextDebug]_vars

\* ------------------------------------------- calls of MarkupCmdOutput
MarkupCalls == {Pending("MarkupCmdOutput", <<out>>) : out \in MarkupLines}

\* MarkupCmdOutput(out)
MarkupCall ==
    /\ Called("MarkupCmdOutput")
    /\ call' = [op |-> "MarkupCmdOutput", args |-> Tail(call.args),
                ret |-> MarkupCmdOutputBytes(ArgVarVals["{FileDirPath}"], call.args[2])]
    /\ UNCHANGED <<AvailCmds, CustomCmds, panicked, runvars>>

InitMarkup ==
    /\ InitRun([c \in {"c1"} |-> [Cmds |-> <<StepPlain>>, Dir |-> "", Wait |-> TRUE]],
               [c \in {"c1"} |-> NilBuf], 1)
    /\ AvailCmds = StdCmds
    /\ CustomCmds = <<>>
    /\ call \in MarkupCalls

NextMarkup == MarkupCall

SpecMarkup == InitMarkup /\ [][NextMarkup]_vars

\* Two commands run side by side: the steps of the runs, without the prompts
\* and without MakeBuf.
NextTwo ==
    \/ \E r \in DOMAIN run, c \in DOMAIN Cmds : Run(r, c)
    \/ \E r \in DOMAIN run : ChangeDir(r)
    \/ \E r \in DOMAIN run : SpawnStep(r)
    \/ \E r \in DOMAIN run : ExitStep(r)
    \/ \E r \in DOMAIN run : GoStep(r)
    \/ \E r \in DOMAIN run : RestoreDir(r)
    \/ \E r \in DOMAIN run, p \in Passes : BgSpawn(r, p)
    \/ \E r \in DOMAIN run, p \in Passes : BgLine(r, p)
    \/ \E r \in DOMAIN run, p \in Passes : BgExit(r, p)

SpecTwo == InitTwo /\ [][NextTwo]_vars

\* Two Run invocations in the foreground: the prompt flow and the loop.
NextWait ==
    \/ \E r \in DOMAIN run, c \in DOMAIN Cmds : Run(r, c)
    \/ \E r \in DOMAIN run, tok \in PromptTokens : Accept(r, tok)
    \/ \E r \in DOMAIN run, tok \in PromptTokens : Cancel(r, tok)
    \/ SetNoUserPrompt
    \/ \E r \in DOMAIN run : ChangeDir(r)
    \/ \E r \in DOMAIN run : SpawnStep(r)
    \/ \E r \in DOMAIN run : ExitStep(r)
    \/ \E r \in DOMAIN run : RestoreDir(r)

SpecWait == InitWait /\ [][NextWait]_vars

\* One Run invocation of one command whose sink was made before the Run and
\* is never cleared.
InitSink ==
    \E d \in CmdDefs : InitWith([c \in {"c1"} |-> d], [c \in {"c1"} |-> EmptyBuf], 1)

NextSink ==
    \/ \E r \in DOMAIN run, c \in DOMAIN Cmds : Run(r, c)
    \/ \E r \in DOMAIN run, tok \in PromptTokens : Accept(r, tok)
    \/ \E r \in DOMAIN run, tok \in PromptTokens : Cancel(r, tok)
    \/ SetNoUserPrompt
    \/ \E r \in DOMAIN run : ChangeDir(r)
    \/ \E r \in DOMAIN run : SpawnStep(r)
    \/ \E r \in DOMAIN run : ExitStep(r)
    \/ \E r \in DOMAIN run : GoStep(r)
    \/ \E r \in DOMAIN run : RestoreDir(r)
    \/ \E r \in DOMAIN run, p \in Passes : BgSpawn(r, p)
    \/ \E r \in DOMAIN run, p \in Passes : BgLine(r, p)
    \/ \E r \in DOMAIN run, p \in Passes : BgExit(r, p)

SpecSink == InitSink /\ [][NextSink]_vars


\* ================================================================ claims
Invoked(r) == run[r].pc # "none"
Range(sq) == {sq[i] : i \in DOMAIN sq}
\* The entries of a history that belong to pass p, in the foreground or in
\* the background.
OfPass(sq, p, inBg) == SelectSeq(sq, LAMBDA e : e.pass = p /\ e.bg = inBg)
\* The number of started steps whose process is still running.
Running(r) ==
    (IF run[r].pc = "wait" THEN 1 ELSE 0) +
    Cardinality({p \in Passes : run[r].bg[p].st = "wait"})
\* The word of a status line that tells how the step ended.
StatusWords == {"<b>successful</b>", "<b>failed</b>", "<b>exec"}
StatusWord(line) == Range(line) \cap StatusWords

\* C1: in a run with Wait, or with more than one step, the steps start in
\* list order, one at a time and never in the background; step k+1 starts
\* only after step k succeeded; a step that failed (launch error or non-zero
\* exit) is the last step of the run that is started, and the run is then
\* unsuccessful (not all steps executed successfully).
C1_FailFast ==
    \A r \in DOMAIN run :
        Invoked(r) /\ Sync(Def(r)) =>
            LET st == run[r].started
                ex == run[r].execd
                succeeded == /\ Len(ex) = Len(Def(r).Cmds)
                             /\ \A i \in DOMAIN ex : ex[i].launched /\ ex[i].code = 0
            IN  /\ \A e \in Range(st) \cup Range(ex) : ~e.bg
                /\ Len(st) <= Len(Def(r).Cmds)
                /\ Len(ex) <= Len(st) /\ Len(st) <= Len(ex) + 1
                /\ \A i \in DOMAIN st : st[i].step = i
                /\ \A i \in DOMAIN ex : ex[i].step = i
                /\ \A i \in DOMAIN ex :
                      ~(ex[i].launched /\ ex[i].code = 0) =>
                          Len(st) = i /\ ~succeeded

\* C2: for a command with one step and Wait = false, whenever the background
\* step has ended (its goroutine is over), its status has been reported.
C2_AsyncStatusReported ==
    \A r \in DOMAIN run :
        Invoked(r) /\ ~Def(r).Wait /\ Len(Def(r).Cmds) = 1 =>
            \A p \in Passes :
                run[r].bg[p].st \in {"done", "panic"} =>
                    \E e \in Range(run[r].execd) : e.pass = p /\ e.bg

\* C3: a Run of a command without prompt tokens, or a Run made while
\* CmdNoUserPrompt is set, issues no prompt request and enters the step
\* sequence exactly once.
C3_NoPromptRunsOnce ==
    \A r \in DOMAIN run :
        Invoked(r) /\ (HasPrompts(Def(r)) = {} \/ run[r].suppressed) =>
            /\ \A t \in PromptTokens : run[r].asked[t] = 0
            /\ run[r].nRAP = 1

\* C4: a Run of a command with prompt tokens, made while CmdNoUserPrompt is
\* not set, issues exactly one request per distinct token; no directory
\* change and no step happens before all of them are accepted; and once all
\* are accepted the step sequence is entered exactly once, no step twice.
C4_PromptThenRunOnce ==
    \A r \in DOMAIN run :
        Invoked(r) /\ HasPrompts(Def(r)) # {} /\ ~run[r].suppressed =>
            LET pvals == HasPrompts(Def(r))
            IN  /\ \A t \in PromptTokens :
                      run[r].asked[t] = IF t \in pvals THEN 1 ELSE 0
                /\ (run[r].nRAP > 0 \/ run[r].chdirs # <<>> \/ run[r].started # <<>>)
                       => Range(run[r].accepted) = pvals
                /\ run[r].nRAP = IF Range(run[r].accepted) = pvals THEN 1 ELSE 0
                /\ Len(run[r].chdirs) <= 1
                /\ \A i, j \in DOMAIN run[r].started :
                      i # j => run[r].started[i].step # run[r].started[j].step

\* Both tokens were asked for, {PromptString2} was accepted before
\* {PromptString1}, and the run went through its steps and returned.
C4_Witness ==
    \E r \in DOMAIN run :
        /\ ~run[r].suppressed
        /\ run[r].accepted = <<PromptString2, PromptString1>>
        /\ run[r].pc = "returned" /\ run[r].nRAP = 1 /\ run[r].restores = 1
        /\ run[r].execd # <<>>

\* C5: a run with a cancelled prompt request executes no step and changes no
\* directory.
C5_CancelAborts ==
    \A r \in DOMAIN run :
        run[r].cancelled # {} =>
            run[r].nRAP = 0 /\ run[r].started = <<>> /\ run[r].chdirs = <<>>

\* C6: the flag is consumed by one use.  Every step that takes a run into
\* RunAfterPrompts leaves CmdNoUserPrompt false; only the setter makes it
\* true; and a Run of a command with prompt tokens that finds it false
\* prompts for every token and does not enter the step sequence.
C6_FlagConsumed ==
    [][/\ \A r \in DOMAIN run :
              run'[r].nRAP > run[r].nRAP => ~CmdNoUserPrompt'
       /\ (CmdNoUserPrompt' /\ ~CmdNoUserPrompt) => run' = run
       /\ \A r \in DOMAIN run :
              (~Invoked(r) /\ run'[r].pc # "none" /\ ~CmdNoUserPrompt
                 /\ HasPrompts(Cmds[run'[r].cm]) # {})
              => /\ run'[r].open = HasPrompts(Cmds[run'[r].cm])
                 /\ run'[r].nRAP = 0
                 /\ ~run'[r].suppressed]_vars

\* The first Run was suppressed (and it has prompt tokens); the second Run,
\* of a command with prompt tokens, was not: it has open dialogs and has not
\* entered its steps.
C6_Witness ==
    /\ DOMAIN run = 1 .. 2
    /\ run[1].suppressed /\ HasPrompts(Def(1)) # {}
    /\ Invoked(2) /\ ~run[2].suppressed
    /\ run[2].open # {} /\ run[2].nRAP = 0

\* C7: when a run with Wait, or with more than one step, has returned from
\* RunAfterPrompts, every pass has restored the directory and the working
\* directory is the project root.
C7_RestoredAtEnd ==
    \A r \in DOMAIN run :
        (Invoked(r) /\ Sync(Def(r)) /\ run[r].pc = "returned" /\ fg = 0
            /\ run[r].nRAP > 0)
        => cwd = ProjRoot /\ run[r].restores = run[r].nRAP

\* The configured directory was entered, the first of two steps ran there and
\* failed, and the run has returned: the directory is the project root again.
C7_Witness ==
    \E r \in DOMAIN run :
        /\ Invoked(r) /\ Len(Def(r).Cmds) = 2 /\ run[r].pc = "returned"
        /\ run[r].chdirs = <<[dir |-> "/proj/sub", err |-> FALSE, pass |-> 1]>>
        /\ Len(run[r].started) = 1 /\ run[r].started[1].cwd = "/proj/sub"
        /\ Len(run[r].execd) = 1 /\ ~run[r].execd[1].ok
        /\ cwd = ProjRoot

\* C8: after a failed change to the configured directory the run goes on:
\* with a sink, the "cd" line and the error line are in the sink, one after
\* the other; the working directory is what it was; the run is at its steps
\* or at the restore step, never ended before it; and when it has returned,
\* it has started its first step (in the loop or in the background) and
\* restored the directory.
C8_ChdirFailureNonFatal ==
    \A r \in DOMAIN run :
        \A e \in Range(run[r].chdirs) :
            e.err =>
                LET c == run[r].cm
                    cm == Def(r)
                    lines == Buf[c].lines
                IN  /\ (fg = r /\ e.pass = run[r].nRAP) =>
                          /\ run[r].pc \in {"spawn", "wait", "go", "restore"}
                          /\ cwd = ProjRoot
                          /\ Buf[c].made =>
                                \E i \in 1 .. (Len(lines) - 1) :
                                    /\ lines[i] =
                                          MarkupCmdOutput(CdLine(e.dir, cm.Dir).pieces[1])
                                    /\ lines[i + 1] =
                                          MarkupCmdOutput(CdErrLine(e.dir).pieces[1])
                    /\ (run[r].pc = "returned" /\ fg = 0) =>
                          /\ run[r].restores = run[r].nRAP
                          /\ Len(cm.Cmds) > 0 =>
                                \/ OfPass(run[r].started, e.pass, FALSE) # <<>>
                                \/ run[r].bg[e.pass].st # "none"

\* C9: in every mode, each step that has ended has a result; the result is
\* successful exactly when the process was launched and exited with status
\* zero; and the status line says "failed" for a non-zero exit and "exec
\* error" for a launch failure.
C9_StepResult ==
    \A r \in DOMAIN run :
        /\ Len(run[r].started) = Len(run[r].execd) + Running(r)
        /\ \A e \in Range(run[r].execd) :
              /\ e.ok <=> (e.launched /\ e.code = 0)
              /\ StatusWord(e.line) =
                    IF e.launched /\ e.code = 0 THEN {"<b>successful</b>"}
                    ELSE IF e.launched THEN {"<b>failed</b>"} ELSE {"<b>exec"}

\* C10: a step of a command without a sink appends nothing to the sink and
\* ends with a result, without a panic of the engine.
C10_NoSinkStepCompletes ==
    \A r \in DOMAIN run :
        (Invoked(r) /\ ~Buf[run[r].cm].made) =>
            /\ Buf[run[r].cm].lines = <<>>
            /\ panicked # "nil Buf"
            /\ Len(run[r].started) = Len(run[r].execd) + Running(r)

\* The concatenation of a sequence of sequences.
RECURSIVE Flatten(_)
Flatten(sqs) == IF sqs = <<>> THEN <<>> ELSE Head(sqs) \o Flatten(Tail(sqs))

\* s is an interleaving of a and b that keeps the order of each.
RECURSIVE IsShuffle(_, _, _)
IsShuffle(s, a, b) ==
    IF s = <<>> THEN a = <<>> /\ b = <<>>
    ELSE \/ a # <<>> /\ Head(a) = Head(s) /\ IsShuffle(Tail(s), Tail(a), b)
         \/ b # <<>> /\ Head(b) = Head(s) /\ IsShuffle(Tail(s), a, Tail(b))

\* The lines a process that ended as e wrote, as the sink shows them.
ShownOut(e) ==
    LET n == IF e.launched THEN (CHOOSE oc \in ExitOutcomes : oc.code = e.code).n
             ELSE 0
    IN  [i \in 1 .. n |-> MarkupCmdOutput(OutLine(i))]
\* The lines of the sink that report the directory change of pass p.
ShownCd(r, p) ==
    Flatten([i \in DOMAIN SelectSeq(run[r].chdirs, LAMBDA e : e.pass = p) |->
        LET e == SelectSeq(run[r].chdirs, LAMBDA e : e.pass = p)[i]
        IN  <<MarkupCmdOutput(CdLine(e.dir, Def(r).Dir).pieces[1])>> \o
            (IF e.err THEN <<MarkupCmdOutput(CdErrLine(e.dir).pieces[1])>>
             ELSE <<>>)])
\* What a captured step leaves in the sink: its lines, the empty piece after
\* the last newline, the "\n" line of RunStatus, the status line.
ShownStep(e) == ShownOut(e) \o <<<<>>, <<>>, e.line>>
\* What pass p of run r has put into the sink so far.
ShownPass(r, p) ==
    ShownCd(r, p) \o
    (IF Sync(Def(r))
     THEN Flatten([i \in DOMAIN OfPass(run[r].execd, p, FALSE) |->
                      ShownStep(OfPass(run[r].execd, p, FALSE)[i])])
     ELSE [i \in 1 .. run[r].bg[p].n |-> MarkupCmdOutput(OutLine(i))] \o
          Flatten([i \in DOMAIN OfPass(run[r].execd, p, TRUE) |->
                      <<<<>>, OfPass(run[r].execd, p, TRUE)[i].line>>]))
IsStatusLine(line) == "at:" \in Range(line)

\* C11: with a sink attached, the sink holds, for each step executed, the
\* step's output lines in the order produced and then its one status line;
\* the steps of the loop follow one another in the sink in the order they
\* were executed (step k's lines and status line before any line of step
\* k+1); the lines of two background steps may interleave, each keeping its
\* own order; and the sink has as many status lines as steps were executed.
C11_OutputThenStatus ==
    \A r \in DOMAIN run :
        Invoked(r) =>
            LET lines == Buf[run[r].cm].lines
            IN  /\ IF Sync(Def(r))
                   THEN lines = ShownPass(r, 1) \o ShownPass(r, 2)
                   ELSE IsShuffle(lines, ShownPass(r, 1), ShownPass(r, 2))
                /\ Cardinality({i \in DOMAIN lines : IsStatusLine(lines[i])})
                      = Len(run[r].execd)

\* A two-step run whose first step succeeded and whose second step wrote two
\* lines and failed: the sink ends with these two lines, in order, and the
\* status line of the second step, after the status line of the first.
C11_Witness ==
    \E r \in DOMAIN run :
        LET lines == Buf[run[r].cm].lines
            n == Len(lines)
        IN  /\ Len(run[r].execd) = 2 /\ MaxOut >= 2
            /\ run[r].execd[1].ok /\ run[r].execd[2].code = 1
            /\ n >= 7
            /\ lines[n] = run[r].execd[2].line
            /\ lines[n - 4] = MarkupCmdOutput(OutLine(1))
            /\ lines[n - 3] = MarkupCmdOutput(OutLine(2))
            /\ \E i \in 1 .. (n - 5) : lines[i] = run[r].execd[1].line

\* The names of a list of commands, and the last command of a name.
NamesOf(cm) == {cm[i].Name : i \in DOMAIN cm}
LastNamed(cm, name) ==
    cm[CHOOSE j \in DOMAIN cm :
          /\ cm[j].Name = name
          /\ \A k \in DOMAIN cm : cm[k].Name = name => k <= j]
Merged == call.op = "MergeAvailCmds"

\* C12 (as stated): after MergeAvailCmds the effective list is the built-in
\* commands in their order, each one that has the name of an override
\* replaced in place by an override of that name, followed by all the
\* overrides that have the name of no built-in command, in override order.
C12_MergeAsStated ==
    Merged =>
        LET rest == SelectSeq(CustomCmds, LAMBDA c : c.Name \notin NamesOf(StdCmds))
        IN  /\ Len(AvailCmds) = Len(StdCmds) + Len(rest)
            /\ \A i \in DOMAIN StdCmds :
                  IF StdCmds[i].Name \in NamesOf(CustomCmds)
                  THEN \E j \in DOMAIN CustomCmds :
                          /\ CustomCmds[j].Name = StdCmds[i].Name
                          /\ AvailCmds[i] = CustomCmds[j]
                  ELSE AvailCmds[i] = StdCmds[i]
            /\ \A i \in DOMAIN rest : AvailCmds[Len(StdCmds) + i] = rest[i]

\* C12 (amended): after MergeAvailCmds the effective list is the built-in
\* commands in their order, each one that has the name of an override
\* replaced in place by the last override of that name, followed by one
\* entry for each distinct override name that is the name of no built-in
\* command, in the order of the names' first occurrence, each entry being
\* the last override of its name.
C12_MergeLastWins ==
    Merged =>
        LET firsts == SelectSeq([j \in DOMAIN CustomCmds |-> j],
                        LAMBDA j : /\ CustomCmds[j].Name \notin NamesOf(StdCmds)
                                   /\ \A k \in 1 .. (j - 1) :
                                         CustomCmds[k].Name # CustomCmds[j].Name)
        IN  AvailCmds =
              [i \in DOMAIN StdCmds |->
                  IF StdCmds[i].Name \in NamesOf(CustomCmds)
                  THEN LastNamed(CustomCmds, StdCmds[i].Name) ELSE StdCmds[i]]
              \o [i \in DOMAIN firsts |->
                     LastNamed(CustomCmds, CustomCmds[firsts[i]].Name)]

\* Merged with an override of "Commit Git" and, after it, an override of a
\* new name: the first is in the place of the built-in command, the second
\* at the end.
C12_Witness ==
    /\ Merged /\ Len(CustomCmds) = 2
    /\ CustomCmds[1].Name = "Commit Git" /\ CustomCmds[2].Name = "Git SVN Bridge"
    /\ Len(AvailCmds) = Len(StdCmds) + 1
    /\ AvailCmds[2] = CustomCmds[1] /\ AvailCmds[5] = CustomCmds[2]
    /\ AvailCmds[1] = StdCmds[1]

\* C13: after MergeAvailCmds no two entries of the effective list have the
\* same name (the names of StdCmds are distinct), whatever the custom list.
C13_NamesUnique ==
    Merged =>
        \A i, j \in DOMAIN AvailCmds :
            i # j => AvailCmds[i].Name # AvailCmds[j].Name

\* Merged with a custom list that has the same new name twice.
C13_Witness ==
    /\ Merged /\ Len(CustomCmds) = 2
    /\ CustomCmds[1].Name = CustomCmds[2].Name
    /\ CustomCmds[1] # CustomCmds[2]
    /\ CustomCmds[1].Name \notin NamesOf(StdCmds)
    /\ CustomCmds[1].Name \in NamesOf(AvailCmds)

\* The last call was FilterCmdNames; its arguments.
Filtered == call.op = "FilterCmdNames"
KnownVcs == {VersCtrlSystems[i] : i \in DOMAIN VersCtrlSystems}

\* C14: VersCtrlCmdNames with a non-empty active name returns, in their
\* order, exactly the names that contain the active name or contain no
\* known version control name.
C14_VersCtrlFilter ==
    (Filtered /\ call.args[2] # "") =>
        /\ ~call.ret.panic
        /\ call.ret.cmds =
              SelectSeq(call.args[3],
                        LAMBDA n : \/ Contains(n, call.args[2])
                                   \/ \A v \in KnownVcs : ~Contains(n, v))

\* C15: LangCmdNames returns, in registry order, the names of the commands
\* whose Langs is empty or has a language in common with the active
\* languages.
C15_LangFilter ==
    Filtered =>
        LET langs == call.args[1]
            sel == SelectSeq(AvailCmds,
                             LAMBDA c : \/ c.Langs = <<>>
                                        \/ Range(c.Langs) \cap Range(langs) # {})
        IN  call.args[3] = [i \in DOMAIN sel |-> sel[i].Name]

\* With the active languages C and Go, of a list that holds a custom command
\* for LaTeX and Go: that command and the command for Go are kept, with the
\* commands that have no languages.
C15_Witness ==
    /\ Filtered /\ call.args[1] = <<"C", "Go">>
    /\ \E i \in DOMAIN AvailCmds :
          /\ AvailCmds[i].Langs = <<"LaTeX", "Go">>
          /\ AvailCmds[i].Name \in Range(call.args[3])
    /\ "Build Go File" \in Range(call.args[3])
    /\ "List Dir" \in Range(call.args[3])

\* C16: when OpenJSON returns an error, the command list is what it was
\* before the call.
C16_FailedLoadKeepsList ==
    (call.op = "OpenJSON" /\ call.ret # "nil") => CustomCmds = call.args[2]

\* The names of the members of Status, by value.
MemberNames ==
    <<"NotInit", "Error", "Building", "Ready", "Running", "Stopped", "Finished",
      "StatusN">>

\* C17: FromString of the string String gives for a member v succeeds and
\* stores v; FromString of a string that is not exactly the name of a
\* member returns an error.
C17_RoundTrip ==
    call.op = "FromString" =>
        LET str == call.args[2]
        IN  /\ \A v \in 0 .. StatusN :
                  str = StatusString(v) =>
                      call.ret.err = "nil" /\ call.ret.val = v
            /\ str \in Range(MemberNames) =>
                  call.ret.err = "nil" /\ MemberNames[call.ret.val + 1] = str
            /\ str \notin Range(MemberNames) => call.ret.err # "nil"

\* The string of Ready was decoded into a receiver that held another value.
C17_Witness ==
    /\ call.op = "FromString"
    /\ call.args[2] = StatusString(3) /\ call.args[2] = "Ready"
    /\ call.args[1] = 0
    /\ call.ret = [val |-> 3, err |-> "nil"]

\* C18: String returns, for every integer, the name of the member for a
\* value in 0 .. StatusN and "Status(n)" for any other value n.
C18_StringTotal ==
    call.op = "String" =>
        LET i == call.args[1]
        IN  call.ret = IF i \in 0 .. StatusN THEN MemberNames[i + 1]
                       ELSE "Status(" \o ToString(i) \o ")"

\* String was called with the successor of the sentinel.
C18_Witness ==
    /\ call.op = "String"
    /\ call.args[1] = StatusN + 1
    /\ call.ret = "Status(8)"

\* The arguments of the last call of ValueString.
Rendered == call.op = "ValueString"
BeyondDepth == Rendered /\ call.args[3] > call.args[4]

\* C19 (as stated): a node at ident > maxdepth renders exactly "{...}".
C19_DepthAsStated == BeyondDepth => call.ret = "{...}"

\* What a node beyond the depth bound renders as: its pre-set value, or "*"
\* and its only child when it is a pointer, or else the opening (its type
\* name when asked for, then " {"), "..." and the closing brace (on a line
\* of its own when newlines is set).
RECURSIVE DepthText(_, _, _, _)
DepthText(vr, newlines, ident, outType) ==
    IF vr.Value # "" THEN vr.Value
    ELSE IF vr.ElValue # "" THEN vr.ElValue
    ELSE IF vr.IsPtr /\ Len(vr.Kids) = 1
    THEN "*" \o DepthText(vr.Kids[1], newlines, ident, TRUE)
    ELSE (IF outType THEN vr.TypeStr ELSE "") \o " {..."
         \o (IF newlines THEN "\n" \o Spaces(2 * ident) ELSE "") \o "}"

\* C19 (amended): a node at ident > maxdepth that has no pre-set value and
\* is not a pointer with one child renders as " {...}" (after its type name
\* when outType is set, with a newline and the indentation before the brace
\* when newlines is set), whatever its list, map, nested map and children;
\* a node with a pre-set value renders the value; a pointer with one child
\* renders "*" and the child, under the same rule.
C19_DepthBound ==
    BeyondDepth =>
        call.ret = DepthText(call.args[1], call.args[2], call.args[3], call.args[6])

\* A struct with two children, a list among them, rendered beyond the depth
\* bound on one line with its type name.
C19_Witness ==
    /\ BeyondDepth /\ ~call.args[2] /\ call.args[6]
    /\ Len(call.args[1].Kids) = 2 /\ ~call.args[1].IsPtr
    /\ call.args[1].Kids[1].List # <<>>
    /\ call.ret = "S {...}"

\* The texts of the elements of the node vr, in the order of rendering: its
\* list, its map, its nested map, its children.
ElemTexts(vr, newlines, ident, maxdepth, maxlen) ==
    [i \in DOMAIN vr.List |-> ToString(i - 1) \o ": " \o vr.List[i]]
    \o [i \in DOMAIN vr.Map |-> vr.Map[i].key \o ": " \o vr.Map[i].val]
    \o [i \in DOMAIN vr.MapVar |->
           vr.MapVar[i].key \o ": " \o
           ValueString(vr.MapVar[i].val, newlines, ident + 1, maxdepth, maxlen, FALSE)]
    \o [i \in DOMAIN vr.Kids |->
           (IF vr.Kids[i].Nm # "" THEN vr.Kids[i].Nm \o ": " ELSE "") \o
           ValueString(vr.Kids[i], newlines, ident + 1, maxdepth, maxlen, TRUE)]
RECURSIVE JoinTexts(_, _)
JoinTexts(texts, k) == IF k = 0 THEN "" ELSE JoinTexts(texts, k - 1) \o texts[k]
\* The node of the last call is rendered as a composite, within the depth.
Composite ==
    /\ Rendered /\ ~BeyondDepth
    /\ call.args[1].Value = "" /\ call.args[1].ElValue = ""
    /\ ~(call.args[1].IsPtr /\ Len(call.args[1].Kids) = 1)

\* C20: at a composite node, once the text of the opening and of the
\* elements rendered so far is longer than maxlen, "..." is appended and
\* none of the remaining elements is rendered (no element text that is not
\* already part of the text so far appears in the result), whether the
\* elements come from the list, the map, the nested map or the children.
C20_LengthBound ==
    Composite =>
        LET vr == call.args[1]
            texts == ElemTexts(vr, call.args[2], call.args[3], call.args[4],
                               call.args[5])
            opening == (IF call.args[6] THEN vr.TypeStr ELSE "") \o " {"
        IN  \A k \in 1 .. (Len(texts) - 1) :
                Len(opening \o JoinTexts(texts, k)) > call.args[5] =>
                    /\ Contains(call.ret, "...")
                    /\ \A j \in (k + 1) .. Len(texts) :
                          Contains(JoinTexts(texts, k), texts[j])
                              \/ ~Contains(call.ret, texts[j])

\* The fields of the line given to MarkupCmdOutput, and the first of its
\* first two fields that contains "." or "/" (0: none).
MarkupIn == call.args[1]
MarkupOut == call.ret
Qualifying(flds) ==
    IF Len(flds) >= 1 /\ (Contains(flds[1], ".") \/ Contains(flds[1], "/")) THEN 1
    ELSE IF Len(flds) >= 2 /\ (Contains(flds[2], ".") \/ Contains(flds[2], "/")) THEN 2
    ELSE 0

\* C21: MarkupCmdOutput rewrites at most one field of a line, the first of
\* its first two fields that contains "." or "/", and leaves every other field
\* verbatim; a line with no such field among its first two is returned
\* identical to the input line.
C21_MarkupOneField ==
    call.op = "MarkupCmdOutput" =>
        LET flds == Fields(MarkupIn)
            q == Qualifying(flds)
        IN  IF q = 0 THEN MarkupOut = MarkupIn
            ELSE \E link \in {LinkOf(ArgVarVals["{FileDirPath}"], flds[q])} :
                    /\ link # flds[q]
                    /\ \E pre, post \in {SubSeq(MarkupIn, i, j) :
                                            i \in 1 .. Len(MarkupIn) + 1,
                                            j \in 0 .. Len(MarkupIn)} :
                          /\ MarkupIn = pre \o flds[q] \o post
                          /\ Len(Fields(pre)) = q - 1
                          /\ MarkupOut = pre \o link \o post

\* The directory a run resolves for its command.
OwnDir(r) == BindArgVars(ArgVarVals, Def(r).Dir)

\* C22: two runs submitted independently are not mutually excluded on the
\* process-wide working directory: a step of one run can be spawned while the
\* working directory is not that run's resolved directory (C22_Witness is
\* such an interleaving), and whenever that happens the working directory is
\* the directory another run has changed to, or the project root that a run
\* has already restored.
C22_ForeignDir ==
    \A r \in DOMAIN run :
        Invoked(r) =>
            \A i \in DOMAIN run[r].started :
                LET d == run[r].started[i].cwd
                IN  \/ d = OwnDir(r)
                    \/ /\ d = ProjRoot
                       /\ \E q \in DOMAIN run : run[q].restores > 0
                    \/ \E q \in DOMAIN run \ {r} :
                          /\ Invoked(q)
                          /\ d = OwnDir(q)
                          /\ run[q].chdirs # <<>>

\* Both runs have a process running, and the step of one of them was spawned
\* in the directory of the other.
C22_Witness ==
    \E r \in DOMAIN run, q \in DOMAIN run :
        /\ r # q /\ Invoked(r) /\ Invoked(q)
        /\ OwnDir(r) # OwnDir(q)
        /\ Running(r) = 1 /\ Running(q) = 1
        /\ Len(run[r].started) = 1
        /\ run[r].started[1].cwd = OwnDir(q)
        /\ run[r].chdirs # <<>> /\ ~run[r].chdirs[1].err

\* C23: across the MakeBuf calls and the runs of a command, the sink is
\* created only by the first MakeBuf call, which returns true; every later
\* call returns false and keeps the same sink object, emptied when clear is
\* true and with its content unchanged when clear is false; no step of a run
\* creates or replaces the sink.
C23_MakeBufOnce ==
    [][\A c \in DOMAIN Cmds :
          /\ Buf[c].made => Buf'[c].made /\ Buf'[c].obj = Buf[c].obj
          /\ (~Buf[c].made /\ Buf'[c].made) => \E clear \in BOOLEAN : MakeBuf(c, clear)
          /\ \A clear \in BOOLEAN :
                MakeBuf(c, clear) =>
                    /\ call'.ret = <<~Buf[c].made>>
                    /\ Buf'[c].lines = IF clear \/ ~Buf[c].made THEN <<>>
                                       ELSE Buf[c].lines]_vars

\* A run has written to the sink and a later MakeBuf(true) has emptied it.
C23_Witness ==
    /\ call.op = "MakeBuf" /\ call.args = <<"c1", TRUE>> /\ call.ret = <<FALSE>>
    /\ Buf["c1"].made /\ Buf["c1"].obj = 1 /\ Buf["c1"].lines = <<>>
    /\ run[1].pc = "returned" /\ run[1].execd # <<>>

\* C24: within a single run, asynchronous or not, the working directory is
\* not restored to the project root before the run's step has been spawned:
\* every step of a run whose working directory is configured and was entered
\* is spawned while the process's working directory is that directory.
C24_SpawnBeforeRestore ==
    \A r \in DOMAIN run :
        Invoked(r) =>
            \A i \in DOMAIN run[r].started :
                LET e == run[r].started[i]
                IN  (\E j \in DOMAIN run[r].chdirs :
                        /\ run[r].chdirs[j].pass = e.pass
                        /\ ~run[r].chdirs[j].err) =>
                    e.cwd = OwnDir(r)

\* C25: RunStatus completes and returns the step's success value for
\* captured output of every length, shorter than CmdOutStatusLen included:
\* the excerpt in the status bar is the first min(len(out), CmdOutStatusLen)
\* bytes of the output.
C25_ExcerptOfOutput ==
    /\ panicked \notin {"slice bounds out of range", "nil Buf"}
    /\ \A r \in DOMAIN run :
          Invoked(r) =>
              \A i \in DOMAIN run[r].execd :
                  LET e == run[r].execd[i]
                  IN  /\ e.ok = (e.launched /\ e.code = 0)
                      /\ e.outstr.beyond = 0
                      /\ Len(e.outstr.text) = MinInt(e.outlen, CmdOutStatusLen)

\* C26: a run of a command whose step sequence is empty spawns no process
\* and still completes, the working directory restored to the project root,
\* for both values of Wait; no step that does not exist is accessed.
C26_EmptyStepsComplete ==
    \A r \in DOMAIN run :
        (Invoked(r) /\ Len(Def(r).Cmds) = 0) =>
            /\ run[r].started = <<>>
            /\ run[r].pc # "panic"
            /\ panicked # "index out of range"
            /\ run[r].pc = "returned" => (run[r].restores >= 1 /\ cwd = ProjRoot)

====
